---- MODULE Spec2Model ----
(***************************************************************************)
(* SkyLore (HackTX2025 citizen-scientist backend): the data loader, the    *)
(* constellation-detection client and the photo submission handler of the  *)
(* Streamlit app, modelled as browser sessions that each run the script    *)
(* top to bottom (load_data, then the upload form handler) against one     *)
(* shared local JSON file, one remote table, one uploads directory and one *)
(* clock; and the sidebar filters, the area filter and the time series of  *)
(* one script run (SpecFilter).  SpecLoad is load_data alone on stores     *)
(* with out-of-range numbers, SpecSingle one session as the only writer,   *)
(* SpecExternal one session with the local file replaced from outside,     *)
(* SpecPoll one call of setConstellation taken request by request.         *)
(*                                                                         *)
(* Numbers: latitudes and longitudes are integers in units of 0.0001       *)
(* degree (900000 is 90.0, 900001 is 90.0001).  Instants are clock ticks   *)
(* at the resolution of strftime's %f, counted from 2024-01-01T00:00:00Z.  *)
(* Distances and radii are integers in units of 0.00001 km.                *)
(***************************************************************************)
EXTENDS Integers, Sequences, FiniteSets, TLC

(* ---------------------------- bounds ---------------------------------- *)
MaxClock == 2
MaxRuns == 2
TicksPerSecond == 2

(* ------------------------ program constants --------------------------- *)
MAX_JOB_POLLS == 20
LatMax == 900000
LonMax == 1800000

\* two browser sessions, each running the script in its own thread
Sessions == {1, 2}

NaT == -1

(* ------------------- raw JSON values and conversions ------------------ *)
Num(n) == [t |-> "num", v |-> n]
NumStr(n) == [t |-> "numstr", v |-> n]
BadStr == [t |-> "badstr", v |-> 0]
Null == [t |-> "null", v |-> 0]

Ok(x) == [err |-> "none", v |-> x]
Raise(e) == [err |-> e, v |-> 0]

\* float(x) / int(x) of a JSON value: numbers and numeric strings convert,
\* other strings raise ValueError, None raises TypeError.
ToNumber(x) ==
    CASE x.t = "num" -> Ok(x.v)
      [] x.t = "numstr" -> Ok(x.v)
      [] x.t = "badstr" -> Raise("ValueError")
      [] OTHER -> Raise("TypeError")

\* timestamp strings: wall-clock reading w, zone offset off (in ticks)
TsNaive(w) == [t |-> "naive", w |-> w, off |-> 0]
TsZoned(w, off) == [t |-> "zoned", w |-> w, off |-> off]
TsZulu(w) == [t |-> "zoned", w |-> w, off |-> 0]
TsEmpty == [t |-> "empty", w |-> 0, off |-> 0]
TsGarbage == [t |-> "garbage", w |-> 0, off |-> 0]
TsNull == [t |-> "null", w |-> 0, off |-> 0]

\* parse_timestamp_utc that keeps the wall-clock reading of a zoned string
parse_timestamp_wall(ts) ==
    CASE ts.t = "naive" -> Ok(ts.w)
      [] ts.t = "zoned" -> Ok(ts.w)
      [] ts.t = "empty" -> Ok(NaT)
      [] ts.t = "garbage" -> Raise("ValueError")
      [] OTHER -> Raise("AttributeError")

\* pd.to_datetime followed by tz_localize("UTC") / tz_convert("UTC")
parse_timestamp_utc(ts) ==
    CASE ts.t = "naive" -> Ok(ts.w)
      [] ts.t = "zoned" -> Ok(ts.w - ts.off)
      [] ts.t = "empty" -> Ok(NaT)
      [] ts.t = "garbage" -> Raise("ValueError")
      [] OTHER -> Raise("AttributeError")

\* datetime.utcnow().isoformat() + "Z"
IsoFormatZ(instant) == TsZulu(instant)

(* ---------------------------- load_data ------------------------------- *)
Loaded(rows) == [err |-> "none", cause |-> "none", df |-> rows]
LoadError(e, c) == [err |-> e, cause |-> c, df |-> <<>>]

\* NormalizeLocal with the two coordinate keys mixed up
NormalizeLocalSwapped(entry) ==
    LET lat == ToNumber(entry.longitude)
        lon == ToNumber(entry.latitude)
        ts == parse_timestamp_utc(entry.timestamp)
        br == ToNumber(entry.brightness_rating)
    IN  CASE lat.err # "none" -> Raise(lat.err)
          [] lon.err # "none" -> Raise(lon.err)
          [] ts.err # "none" -> Raise(ts.err)
          [] br.err # "none" -> Raise(br.err)
          [] OTHER ->
               Ok([id |-> entry.id,
                   photo_url |-> entry.photo_url,
                   latitude |-> lat.v,
                   longitude |-> lon.v,
                   timestamp |-> ts.v,
                   brightness_rating |-> br.v,
                   constellation_name |-> entry.constellation_name,
                   constellation_names |-> entry.constellation_names])

\* one entry of the local JSON array -> one canonical row
NormalizeLocal(entry) ==
    LET lat == ToNumber(entry.latitude)
        lon == ToNumber(entry.longitude)
        ts == parse_timestamp_utc(entry.timestamp)
        br == ToNumber(entry.brightness_rating)
    IN  CASE lat.err # "none" -> Raise(lat.err)
          [] lon.err # "none" -> Raise(lon.err)
          [] ts.err # "none" -> Raise(ts.err)
          [] br.err # "none" -> Raise(br.err)
          [] OTHER ->
               Ok([id |-> entry.id,
                   photo_url |-> entry.photo_url,
                   latitude |-> lat.v,
                   longitude |-> lon.v,
                   timestamp |-> ts.v,
                   brightness_rating |-> br.v,
                   constellation_name |-> entry.constellation_name,
                   constellation_names |-> entry.constellation_names])

\* one row of the remote table -> one canonical row
NormalizeRemote(entry) ==
    LET lat == ToNumber(entry.lat)
        lon == ToNumber(entry.long)
        ts == parse_timestamp_utc(entry.created_at)
        br == ToNumber(entry.brightness_level)
    IN  CASE lat.err # "none" -> Raise(lat.err)
          [] lon.err # "none" -> Raise(lon.err)
          [] ts.err # "none" -> Raise(ts.err)
          [] br.err # "none" -> Raise(br.err)
          [] OTHER ->
               Ok([id |-> entry.id,
                   photo_url |-> entry.photo_url,
                   latitude |-> lat.v,
                   longitude |-> lon.v,
                   timestamp |-> ts.v,
                   brightness_rating |-> br.v,
                   constellation_name |-> "",
                   constellation_names |-> <<>>])

\* the first exception raised while the records are normalised in order
RECURSIVE FirstError(_, _)
FirstError(results, i) ==
    IF i > Len(results) THEN "none"
    ELSE IF results[i].err # "none" THEN results[i].err
    ELSE FirstError(results, i + 1)

\* Before for a descending sort
BeforeDescending(a, b) == a.timestamp # NaT /\ (b.timestamp = NaT \/ a.timestamp > b.timestamp)

\* df.sort_values("timestamp"): ascending, missing timestamps last, rows
\* with equal timestamps keep their order
Before(a, b) == a.timestamp # NaT /\ (b.timestamp = NaT \/ a.timestamp < b.timestamp)

RECURSIVE InsertSorted(_, _)
InsertSorted(row, sorted) ==
    IF sorted = <<>> THEN <<row>>
    ELSE IF Before(row, Head(sorted)) THEN <<row>> \o sorted
    ELSE <<Head(sorted)>> \o InsertSorted(row, Tail(sorted))

RECURSIVE SortByTimestamp(_)
SortByTimestamp(rows) ==
    IF rows = <<>> THEN <<>>
    ELSE InsertSorted(rows[Len(rows)], SortByTimestamp(SubSeq(rows, 1, Len(rows) - 1)))

\* mode == "mock": the file f is read whole on every call
LoadMock(f) ==
    CASE f.kind = "missing" -> LoadError("FileNotFoundError", "none")
      [] f.kind = "garbage" -> LoadError("JSONDecodeError", "none")
      [] f.kind = "object" -> LoadError("AttributeError", "none")
      [] OTHER ->
           LET results == [i \in 1..Len(f.recs) |-> NormalizeLocal(f.recs[i])]
               e == FirstError(results, 1)
           IN  IF e # "none" THEN LoadError(e, "none")
               ELSE IF f.recs = <<>> THEN LoadError("KeyError", "none")
               ELSE Loaded(SortByTimestamp([i \in 1..Len(results) |-> results[i].v]))

\* mode == "db": resp is what the import and the select request do
LoadDb(resp, rows) ==
    CASE resp = "import_error" -> LoadError("ImportError", "none")
      [] resp = "query_failed" -> LoadError("RuntimeError", "ConnectionError")
      [] OTHER ->
           IF rows = <<>> THEN Loaded(<<>>)
           ELSE LET results == [i \in 1..Len(rows) |-> NormalizeRemote(rows[i])]
                    e == FirstError(results, 1)
                IN  IF e # "none" THEN LoadError("RuntimeError", e)
                    ELSE Loaded(SortByTimestamp([i \in 1..Len(results) |-> results[i].v]))

load_data(mode, f, resp, rows) ==
    CASE mode = "mock" -> LoadMock(f)
      [] mode = "db" -> LoadDb(resp, rows)
      [] OTHER -> LoadError("ValueError", "none")

\* the except clauses around load_data in the app: which one catches err
HandlerOf(err) ==
    CASE err = "ImportError" -> "missing_dependency"
      [] err \in {"ValueError", "JSONDecodeError"} -> "configuration_error"
      [] OTHER -> "load_failed"

(* --------------------- constellation detection ------------------------ *)
\* What the remote service answers during one detection:
\*   login   "success" | "nosession" | "failed" | "error"
\*   upload  "success" | "nosubid" | "failed" | "error"
\*   sub     "job" | "nojob" | "error"
\*   job     the statuses of the successive job polls; polls past the end
\*           of the sequence see "solving"
\*   objects "error", or the objects_in_field list

\* status seen by the poll with index i (0-based)
StatusAt(job, i) == IF i + 1 <= Len(job) THEN job[i + 1] ELSE "solving"

\* poll_job_status: the for loop from retry_count on
PollResult(result, polls, why) == [result |-> result, polls |-> polls, why |-> why]

RECURSIVE PollFrom(_, _)
PollFrom(job, retry_count) ==
    IF retry_count >= MAX_JOB_POLLS THEN PollResult(FALSE, retry_count, "exhausted")
    ELSE LET st == StatusAt(job, retry_count)
         IN  CASE st = "success" -> PollResult(TRUE, retry_count + 1, "success")
               [] st \in {"failure", "failed", "error"} ->
                    PollResult(FALSE, retry_count + 1, "failure")
               [] st = "unexpected" -> PollResult(FALSE, retry_count + 1, "unexpected")
               [] OTHER -> PollFrom(job, retry_count + 1)

poll_job_status(job) == PollFrom(job, 0)

\* get_job_results: keep the names of the objects that are constellations
RECURSIVE ConstellationsOf(_)
ConstellationsOf(objects) ==
    IF objects = <<>> THEN <<>>
    ELSE IF Head(objects).constellation
         THEN <<Head(objects).name>> \o ConstellationsOf(Tail(objects))
         ELSE ConstellationsOf(Tail(objects))

Returned(names) == [kind |-> "return", value |-> names]
SysExit == [kind |-> "exit", value |-> <<>>]
Raised == [kind |-> "raise", value |-> <<>>]

setConstellation(e) ==
    CASE e.login \in {"failed", "error"} -> SysExit
      [] e.login = "nosession" -> Returned(<<>>)
      [] e.upload \in {"failed", "error"} -> SysExit
      [] e.upload = "nosubid" -> Returned(<<>>)
      [] e.sub = "error" -> Raised
      [] e.sub = "nojob" -> Returned(<<>>)
      [] ~poll_job_status(e.job).result -> Returned(<<>>)
      [] e.objects.error -> Raised
      [] OTHER -> Returned(ConstellationsOf(e.objects.list))

(* ------------------------- submission handler ------------------------- *)
\* Validate with the bounds excluded (< for <=)
ValidateStrict(c) ==
    IF c.uploaded_file = "none" THEN "no_photo"
    ELSE IF -LatMax < c.latitude /\ c.latitude < LatMax
            /\ -LonMax < c.longitude /\ c.longitude < LonMax
         THEN "ok"
         ELSE "invalid_coordinates"

\* the checks of the submit handler, in the order the code makes them
Validate(c) ==
    IF c.uploaded_file = "none" THEN "no_photo"
    ELSE IF -LatMax <= c.latitude /\ c.latitude <= LatMax
            /\ -LonMax <= c.longitude /\ c.longitude <= LonMax
         THEN "ok"
         ELSE "invalid_coordinates"

\* saved_filename: strftime('%Y%m%d%H%M%S') of the clock, then the name
SavedPath(clock, name) == <<clock \div TicksPerSecond, name>>

\* the new_record dict; the id is strftime('%Y%m%d%H%M%S%f') of the clock
NewRecord(c, path, idClock, tsClock, names) ==
    [id |-> <<"U", idClock>>,
     photo_url |-> path,
     latitude |-> c.latitude,
     longitude |-> c.longitude,
     timestamp |-> IsoFormatZ(tsClock),
     brightness_rating |-> c.brightness_rating,
     constellation_name |-> IF names # <<>> THEN names[1] ELSE "",
     constellation_names |-> names]

\* json.dump of one record
ToJson(r) ==
    [id |-> r.id,
     photo_url |-> r.photo_url,
     latitude |-> Num(r.latitude),
     longitude |-> Num(r.longitude),
     timestamp |-> r.timestamp,
     brightness_rating |-> Num(r.brightness_rating),
     constellation_name |-> r.constellation_name,
     constellation_names |-> r.constellation_names]

\* insert_payload of the remote insert
InsertPayload(r) ==
    [id |-> r.id,
     created_at |-> r.timestamp,
     photo_url |-> r.photo_url,
     brightness_level |-> Num(r.brightness_rating),
     lat |-> Num(r.latitude),
     long |-> Num(r.longitude)]

FileOf(kind, recs) == [kind |-> kind, recs |-> recs]

\* ReadExisting that takes a document that is no array for an error
ReadExistingStrict(f) ==
    CASE f.kind = "missing" -> Ok(<<>>)
      [] f.kind = "garbage" -> Raise("JSONDecodeError")
      [] f.kind = "object" -> Raise("TypeError")
      [] OTHER -> Ok(f.recs)

\* "Read existing": what the append keeps of the file content
ReadExisting(f) ==
    CASE f.kind = "missing" -> Ok(<<>>)
      [] f.kind = "garbage" -> Raise("JSONDecodeError")
      [] f.kind = "object" -> Ok(<<>>)
      [] OTHER -> Ok(f.recs)

\* Rewritten with the new record put in front of the array
RewrittenInFront(existing, r) == FileOf("list", <<ToJson(r)>> \o existing)

\* existing.append(new_record); json.dump(existing, f, ...)
Rewritten(existing, r) == FileOf("list", Append(existing, ToJson(r)))

(* --------------------------- filter pipeline -------------------------- *)
\* The calendar of the instants: instant 0 is 2024-01-01T00:00:00Z, a
\* Monday; day d is the d-th day after it.
SecondsPerDay == 86400
TicksPerDay == SecondsPerDay * TicksPerSecond
DaysPerWeek == 7

At(day, second, tick) == day * TicksPerDay + second * TicksPerSecond + tick
DayOf(instant) == instant \div TicksPerDay
StartOfDay(day) == day * TicksPerDay

\* date stage that takes a single date for a range of one day
DateStageSingleDay(rows, date_range) ==
    IF Len(date_range) >= 1
    THEN LET start == StartOfDay(date_range[1])
             end == StartOfDay(date_range[Len(date_range)]) + TicksPerDay - TicksPerSecond
         IN  SelectSeq(rows, LAMBDA r : /\ r.timestamp # NaT
                                        /\ r.timestamp >= start
                                        /\ r.timestamp <= end)
    ELSE rows

\* date stage: applied when st.date_input gave two dates;
\* start = Timestamp(date_range[0]),
\* end = Timestamp(date_range[1]) + Timedelta(days=1) - Timedelta(seconds=1);
\* a comparison with NaT is False
DateStage(rows, date_range) ==
    IF Len(date_range) = 2
    THEN LET start == StartOfDay(date_range[1])
             end == StartOfDay(date_range[2]) + TicksPerDay - TicksPerSecond
         IN  SelectSeq(rows, LAMBDA r : /\ r.timestamp # NaT
                                        /\ r.timestamp >= start
                                        /\ r.timestamp <= end)
    ELSE rows

\* brightness stage with the comparison turned round
BrightnessStageBelow(rows, min_brightness) ==
    SelectSeq(rows, LAMBDA r : r.brightness_rating <= min_brightness)

\* filtered[filtered["brightness_rating"] >= min_brightness]
BrightnessStage(rows, min_brightness) ==
    SelectSeq(rows, LAMBDA r : r.brightness_rating >= min_brightness)

\* str(x).lower(): the characters of x, lower-cased, for the texts of the
\* stores and of the filter box
Lower(text) ==
    CASE text = "" -> <<>>
      [] text = "Orion" -> <<"o", "r", "i", "o", "n">>
      [] text = "Taurus" -> <<"t", "a", "u", "r", "u", "s">>
      [] text = "Ursa Major" -> <<"u", "r", "s", "a", " ", "m", "a", "j", "o", "r">>
      [] text = "ori" -> <<"o", "r", "i">>
      [] text = "UR" -> <<"u", "r">>

\* needle in hay
Contains(hay, needle) ==
    \E i \in 0..(Len(hay) - Len(needle)) : SubSeq(hay, i + 1, i + Len(needle)) = needle

\* isinstance(row['constellation_names'], list): every row load_data builds
\* carries a list, the entry's own or the default []
IsList(names) == Len(names) >= 0

matches_constellation(row, const_filter) ==
    IF IsList(row.constellation_names)
    THEN \E i \in 1..Len(row.constellation_names) :
           /\ row.constellation_names[i] # ""
           /\ Contains(Lower(row.constellation_names[i]), Lower(const_filter))
    ELSE IF row.constellation_name # ""
         THEN Contains(Lower(row.constellation_name), Lower(const_filter))
         ELSE FALSE

\* constellation stage that also leaves out the first row it is given
ConstellationStageSkipFirst(rows, const_filter) ==
    IF const_filter # "" /\ rows # <<>>
    THEN SelectSeq(Tail(rows), LAMBDA r : matches_constellation(r, const_filter))
    ELSE rows

\* constellation stage: skipped when the filter box is empty
ConstellationStage(rows, const_filter) ==
    IF const_filter # ""
    THEN SelectSeq(rows, LAMBDA r : matches_constellation(r, const_filter))
    ELSE rows

\* radius_km = radius_mi * 1.60934, in units of 0.00001 km
RadiusKm(radius_mi) == radius_mi * 160934

\* haversine_km: R * 2 * arcsin(sqrt(a)) with R = 6371.0, in units of
\* 0.00001 km, tabulated for the points (0,0), (0,1) and (10,10); for equal
\* points dlat = dlon = 0, so a = 0 and the distance is 0
haversine_km(lat1, lon1, lat2, lon2) ==
    LET ends == {<<lat1, lon1>>, <<lat2, lon2>>}
    IN  CASE Cardinality(ends) = 1 -> 0
          [] ends = {<<0, 0>>, <<0, 10000>>} -> 11119492
          [] ends = {<<0, 0>>, <<100000, 100000>>} -> 156852055
          [] ends = {<<0, 10000>>, <<100000, 100000>>} -> 149255947

\* area stage with a strict comparison
AreaStageStrict(rows, center_lat, center_lon, radius_km) ==
    IF rows # <<>>
    THEN SelectSeq(rows, LAMBDA r :
             haversine_km(center_lat, center_lon, r.latitude, r.longitude) < radius_km)
    ELSE rows

\* area stage that leaves out the first row in range
AreaStageSkipFirst(rows, center_lat, center_lon, radius_km) ==
    LET kept == SelectSeq(rows, LAMBDA r :
                    haversine_km(center_lat, center_lon, r.latitude, r.longitude) <= radius_km)
    IN  IF kept # <<>> THEN Tail(kept) ELSE kept

\* area stage: filtered.iloc[np.where(dists <= radius_km)[0]]
AreaStage(rows, center_lat, center_lon, radius_km) ==
    IF rows # <<>>
    THEN SelectSeq(rows, LAMBDA r :
             haversine_km(center_lat, center_lon, r.latitude, r.longitude) <= radius_km)
    ELSE rows

(* ----------------------------- time_series ---------------------------- *)
\* day numbers of the month ends 2024-01-31, 2024-02-29 and 2024-03-31
MonthEnds == <<30, 59, 90>>
MonthOf(day) == CHOOSE m \in 1..Len(MonthEnds) :
                  day <= MonthEnds[m] /\ (m = 1 \/ day > MonthEnds[m - 1])

\* resample(freq): the label (a day) of the bin that holds the given day.
\* 'D' bins are days labelled by their start; 'W' is W-SUN and 'M' is month
\* end, both closed and labelled on the right: the bin of a day carries the
\* Sunday, or the last day of the month, on or after it.
BinLabel(freq, day) ==
    CASE freq = "D" -> day
      [] freq = "W" -> day + ((DaysPerWeek - 1) - (day % DaysPerWeek))
      [] OTHER -> MonthEnds[MonthOf(day)]

NextLabel(freq, label) ==
    CASE freq = "D" -> label + 1
      [] freq = "W" -> label + DaysPerWeek
      [] OTHER -> IF MonthOf(label) < Len(MonthEnds)
                  THEN MonthEnds[MonthOf(label) + 1] ELSE label + 31

\* every bin from the first to the last one that holds a row
RECURSIVE Labels(_, _, _)
Labels(freq, label, last) ==
    IF label > last THEN <<>>
    ELSE <<label>> \o Labels(freq, NextLabel(freq, label), last)

RECURSIVE SumOf(_)
SumOf(rows) ==
    IF rows = <<>> THEN 0 ELSE Head(rows).brightness_rating + SumOf(Tail(rows))

\* mean(): the sum and the number of the values; no value gives NaN
Mean(rows) == [sum |-> SumOf(rows), count |-> Len(rows)]

\* Mean over all the rows instead of those of the bin
MeanOfAll(rows, all) == [sum |-> SumOf(rows), count |-> Len(all)]

MinDay(rows) == CHOOSE d \in {DayOf(rows[i].timestamp) : i \in 1..Len(rows)} :
                  \A j \in 1..Len(rows) : d <= DayOf(rows[j].timestamp)
MaxDay(rows) == CHOOSE d \in {DayOf(rows[i].timestamp) : i \in 1..Len(rows)} :
                  \A j \in 1..Len(rows) : d >= DayOf(rows[j].timestamp)

\* time_series without the df.empty test: an empty table gives one pair
\* without a value
time_series_unguarded(rows, freq) ==
    IF rows = <<>> THEN <<[timestamp |-> NaT, brightness_rating |-> Mean(rows)]>>
    ELSE LET labels == Labels(freq, BinLabel(freq, MinDay(rows)), BinLabel(freq, MaxDay(rows)))
         IN  [i \in 1..Len(labels) |->
                [timestamp |-> StartOfDay(labels[i]),
                 brightness_rating |->
                     Mean(SelectSeq(rows, LAMBDA r :
                         BinLabel(freq, DayOf(r.timestamp)) = labels[i]))]]

\* time_series with the mean taken over the whole table
time_series_all(rows, freq) ==
    IF rows = <<>> THEN <<>>
    ELSE LET labels == Labels(freq, BinLabel(freq, MinDay(rows)), BinLabel(freq, MaxDay(rows)))
         IN  [i \in 1..Len(labels) |->
                [timestamp |-> StartOfDay(labels[i]),
                 brightness_rating |->
                     MeanOfAll(SelectSeq(rows, LAMBDA r :
                         BinLabel(freq, DayOf(r.timestamp)) = labels[i]), rows)]]

\* df.set_index("timestamp").resample(freq).brightness_rating.mean()
\*   .reset_index(): one (timestamp, brightness_rating) row per bin
time_series(rows, freq) ==
    IF rows = <<>> THEN <<>>
    ELSE LET labels == Labels(freq, BinLabel(freq, MinDay(rows)), BinLabel(freq, MaxDay(rows)))
         IN  [i \in 1..Len(labels) |->
                [timestamp |-> StartOfDay(labels[i]),
                 brightness_rating |->
                     Mean(SelectSeq(rows, LAMBDA r :
                         BinLabel(freq, DayOf(r.timestamp)) = labels[i]))]]

(* ------------------------------ inputs -------------------------------- *)
Cand(lat, lon, b, f) ==
    [latitude |-> lat, longitude |-> lon, brightness_rating |-> b, uploaded_file |-> f]

NoCand == Cand(0, 0, 0, "none")

Candidates ==
    { Cand(407128, -740060, 3, "sky.jpg"),
      Cand(LatMax, -740060, 1, "sky.jpg"),
      Cand(-LatMax, LonMax, 5, "sky.jpg"),
      Cand(LatMax + 1, -740060, 3, "sky.jpg"),
      Cand(-LatMax - 1, -740060, 3, "sky.jpg"),
      Cand(407128, LonMax + 1, 3, "sky.jpg"),
      Cand(407128, -740060, 6, "sky.jpg"),
      Cand(407128, -740060, 3, "none") }

Obj(name, isConstellation) == [name |-> name, constellation |-> isConstellation]

Service(login, upload, sub, job, objects) ==
    [login |-> login, upload |-> upload, sub |-> sub, job |-> job, objects |-> objects]

Objects(list) == [error |-> FALSE, list |-> list]
ObjectsError == [error |-> TRUE, list |-> <<>>]

Services ==
    { Service("success", "success", "job", <<"solving", "success">>,
              Objects(<<Obj("Orion", TRUE), Obj("M42", FALSE), Obj("Taurus", TRUE)>>)),
      Service("success", "success", "job", <<"success">>, Objects(<<Obj("M42", FALSE)>>)),
      Service("failed", "success", "job", <<"success">>, Objects(<<>>)),
      Service("success", "error", "job", <<"success">>, Objects(<<>>)),
      Service("success", "success", "error", <<"success">>, Objects(<<>>)),
      Service("success", "success", "nojob", <<"success">>, Objects(<<>>)),
      Service("success", "success", "job", <<"neterr", "failure">>, Objects(<<>>)),
      Service("success", "success", "job", <<>>, Objects(<<>>)),
      Service("success", "success", "job", <<"success">>, ObjectsError) }

\* how a detection ended, for the record of the run
DetectionOutcome(e) ==
    CASE e.login \in {"failed", "error"} -> "login_failed"
      [] e.login = "nosession" -> "no_session"
      [] e.upload \in {"failed", "error"} -> "upload_failed"
      [] e.upload = "nosubid" -> "no_submission"
      [] e.sub = "error" -> "network_exception"
      [] e.sub = "nojob" -> "no_job"
      [] ~poll_job_status(e.job).result ->
           IF poll_job_status(e.job).why = "exhausted" THEN "poll_timeout" ELSE "job_failed"
      [] e.objects.error -> "network_exception"
      [] OTHER -> "solved"

SeedEntry(n, lat, ts, b) ==
    [id |-> <<"S", n>>, photo_url |-> <<0, "seed.jpg">>,
     latitude |-> lat, longitude |-> Num(-977431), timestamp |-> ts,
     brightness_rating |-> b, constellation_name |-> "Orion",
     constellation_names |-> <<"Orion">>]

SeedRow(n, lat, ts, b) ==
    [id |-> <<"S", n>>, photo_url |-> <<0, "seed.jpg">>,
     lat |-> lat, long |-> Num(-977431), created_at |-> ts, brightness_level |-> b]

GoodEntry == SeedEntry(1, Num(302672), TsNaive(0), Num(3))
GoodRow == SeedRow(2, NumStr(302672), TsZoned(1, 1), Num(4))

FileInits ==
    { FileOf("list", <<GoodEntry>>),
      FileOf("missing", <<>>),
      FileOf("garbage", <<>>),
      FileOf("object", <<>>),
      FileOf("list", <<>>),
      FileOf("list", <<GoodEntry, SeedEntry(3, BadStr, TsNaive(0), Num(3))>>),
      FileOf("list", <<SeedEntry(3, Null, TsNaive(0), Num(3)), GoodEntry>>),
      FileOf("list", <<GoodEntry, SeedEntry(3, Num(1), TsGarbage, Num(3))>>),
      FileOf("list", <<GoodEntry, SeedEntry(3, Num(1), TsEmpty, Num(3))>>),
      FileOf("list", <<GoodEntry, SeedEntry(3, Num(1), TsNull, Num(3))>>),
      FileOf("list", <<GoodEntry, SeedEntry(3, Num(1), TsNaive(0), BadStr)>>) }

DbInits ==
    { <<>>,
      <<GoodRow>>,
      <<GoodRow, SeedRow(4, Num(1), TsGarbage, Num(3))>>,
      <<GoodRow, SeedRow(4, Num(1), TsEmpty, Num(3))>>,
      <<SeedRow(4, Num(1), TsZulu(1), BadStr), GoodRow>> }

\* the stores the program starts with: every local file with the good
\* remote table, every remote table with the good local file
StoreInits ==
    { <<f, <<GoodRow>> >> : f \in FileInits } \cup
    { <<FileOf("list", <<GoodEntry>>), d>> : d \in DbInits }

DbResponses == {"ok", "query_failed", "import_error"}

\* the stores the filter pipeline and the time series are run on: every
\* timestamp parses, the points are those haversine_km is tabulated for
Entry(n, lat, lon, ts, b, name, names) ==
    [id |-> <<"S", n>>, photo_url |-> <<0, "seed.jpg">>,
     latitude |-> Num(lat), longitude |-> Num(lon), timestamp |-> ts,
     brightness_rating |-> Num(b), constellation_name |-> name,
     constellation_names |-> names]

Row(n, lat, lon, ts, b) ==
    [id |-> <<"S", n>>, photo_url |-> <<0, "seed.jpg">>,
     lat |-> Num(lat), long |-> Num(lon), created_at |-> ts, brightness_level |-> Num(b)]

FiveHours == 5 * 3600 * TicksPerSecond

\* "2024-01-01T00:00:00", at (0, 0)
MondayNaive == Entry(1, 0, 0, TsNaive(At(0, 0, 0)), 2, "Orion", <<"Orion">>)
\* "2024-01-01T05:00:00+05:00", at (0, 1)
MondayZoned == Entry(2, 0, 10000, TsZoned(At(0, 5 * 3600, 0), FiveHours), 4,
                     "Taurus", <<"Taurus", "Orion">>)
\* noon of 2024-01-02, at (10, 10): a legacy entry, without constellation_names
TuesdayLegacy == Entry(3, 100000, 100000, TsNaive(At(1, 43200, 0)), 3, "Orion", <<>>)
\* in the last second of 2024-01-02, past 23:59:59
TuesdayLate == Entry(4, 0, 0, TsZulu(At(1, SecondsPerDay - 1, 1)), 5,
                     "Ursa Major", <<"Ursa Major">>)
\* 2024-01-04, a Thursday
Thursday == Entry(5, 0, 10000, TsNaive(At(3, 0, 0)), 1, "", <<"Taurus">>)
\* 2024-02-05
February == Entry(6, 0, 0, TsZulu(At(35, 100, 0)), 3, "Orion", <<"Orion">>)

FilterFiles ==
    { FileOf("list", <<MondayNaive, MondayZoned, TuesdayLegacy>>),
      FileOf("list", <<TuesdayLate, TuesdayLegacy, MondayNaive>>),
      FileOf("list", <<Thursday, MondayNaive, MondayZoned, TuesdayLate>>),
      FileOf("list", <<February, MondayNaive, Thursday>>) }

FilterRows ==
    <<Row(7, 0, 10000, TsZulu(At(1, 0, 0)), 4), Row(8, 0, 0, TsNaive(At(0, 60, 0)), 2)>>

FilterStoreInits ==
    { <<f, FilterRows>> : f \in FilterFiles } \cup
    { <<FileOf("list", <<MondayNaive, MondayZoned, TuesdayLegacy>>), <<>> >> }

\* a radius_km of 200 km, in units of 0.00001 km
TwoHundredKm == 20000000

\* the sidebar widgets: date_input gives no day when it is cleared, one
\* while the range is being picked, else two; the radius is in units of
\* 0.00001 km
DateRanges == {<<>>, <<0>>, <<0, 0>>, <<0, 1>>, <<1, 3>>, <<0, 3>>, <<0, 40>>}
MinBrightness == {1, 3, 5}
ConstFilters == {"", "ori", "UR"}
Centers == {<<0, 0>>, <<100000, 100000>>}
Radii == {0, RadiusKm(1), TwoHundredKm, RadiusKm(1000)}
Freqs == {"D", "W", "M"}

Params(date_range, min_brightness, const_filter, center, radius_km, freq) ==
    [date_range |-> date_range, min_brightness |-> min_brightness,
     const_filter |-> const_filter, center_lat |-> center[1], center_lon |-> center[2],
     radius_km |-> radius_km, freq |-> freq]

NoParams == Params(<<0>>, 1, "", <<0, 0>>, 0, "D")

(* ------------------------------ state --------------------------------- *)
VARIABLES
    file,          \* mock_data.json
    db,            \* rows of the remote table 'photos'
    uploads,       \* the uploads/ directory: set of [path, data]
    now,           \* the clock read by datetime.utcnow()
    envConfigured, \* SUPABASE_URL and SUPABASE_ANON_KEY are set
    pc,            \* where each session's script run is
    runs,          \* script runs started by each session
    use_db,        \* the data source radio of the run
    loaded,        \* what load_data returned or raised in the run
    cand,          \* the form fields submitted in the run
    detection,     \* how the detection of the run ended
    detected,      \* detected_constellations: [bound, names]
    msgs,          \* st.success / st.error / ... shown in the run
    io,            \* files and requests touched in the run
    saved_path,    \* where the image of the run was saved
    new_record,    \* new_record of the run
    existing,      \* the array read back by the local append
    ended,         \* how the run ended
    params,        \* the sidebar widgets of the run
    step,          \* the filter stage the run comes to next
    stage_in,      \* the table the last stage was given
    filtered,      \* filtered
    area_filtered, \* area_filtered
    ts,            \* the rows time_series hands to px.line
    astrometry,    \* what the Astrometry.net service answers in one detection
    detect_pc,     \* where setConstellation is
    retry_count,   \* retry_count of poll_job_status
    requests,      \* job status requests made by poll_job_status
    polled,        \* what poll_job_status returned
    returned       \* how setConstellation ended

\* the filters and the chart of the run
fvars == <<params, step, stage_in, filtered, area_filtered, ts>>

\* one call of setConstellation
pvars == <<astrometry, detect_pc, retry_count, requests, polled, returned>>

\* the stores and the rest of the run
svars == <<file, db, uploads, now, envConfigured, pc, runs, use_db, loaded, cand,
           detection, detected, msgs, io, saved_path, new_record, existing, ended>>

vars == <<file, db, uploads, now, envConfigured, pc, runs, use_db, loaded, cand,
          detection, detected, msgs, io, saved_path, new_record, existing, ended,
          params, step, stage_in, filtered, area_filtered, ts,
          astrometry, detect_pc, retry_count, requests, polled, returned>>

NoPath == <<0, "none">>
NoRecord == NewRecord(NoCand, NoPath, 0, 0, <<>>)
Unbound == [bound |-> FALSE, names |-> <<>>]
Bound(names) == [bound |-> TRUE, names |-> names]
NotLoaded == LoadError("not_loaded", "none")
NoService == Service("none", "none", "none", <<>>, Objects(<<>>))
Running == [kind |-> "running", value |-> <<>>]
NotPolled == PollResult(FALSE, 0, "pending")

Init ==
    /\ \E st \in StoreInits : file = st[1] /\ db = st[2]
    /\ uploads = {}
    /\ now = 0
    /\ envConfigured \in BOOLEAN
    /\ pc = [s \in Sessions |-> "start"]
    /\ runs = [s \in Sessions |-> 1]
    /\ use_db = [s \in Sessions |-> FALSE]
    /\ loaded = [s \in Sessions |-> NotLoaded]
    /\ cand = [s \in Sessions |-> NoCand]
    /\ detection = [s \in Sessions |-> "none"]
    /\ detected = [s \in Sessions |-> Unbound]
    /\ msgs = [s \in Sessions |-> {}]
    /\ io = [s \in Sessions |-> {}]
    /\ saved_path = [s \in Sessions |-> NoPath]
    /\ new_record = [s \in Sessions |-> NoRecord]
    /\ existing = [s \in Sessions |-> <<>>]
    /\ ended = [s \in Sessions |-> "running"]
    /\ params = NoParams
    /\ step = "sidebar"
    /\ stage_in = <<>>
    /\ filtered = <<>>
    /\ area_filtered = <<>>
    /\ ts = <<>>
    /\ astrometry = NoService
    /\ detect_pc = "idle"
    /\ retry_count = 0
    /\ requests = 0
    /\ polled = NotPolled
    /\ returned = Running

(* ------------------------------ actions ------------------------------- *)
Show(s, m) == msgs' = [msgs EXCEPT ![s] = @ \cup m]
Touch(s, t) == io' = [io EXCEPT ![s] = @ \cup t]
End(s, how) == /\ pc' = [pc EXCEPT ![s] = "end"]
               /\ ended' = [ended EXCEPT ![s] = how]
Goto(s, l) == /\ pc' = [pc EXCEPT ![s] = l]
              /\ UNCHANGED ended

\* top of the script: the data source radio, then load_data(config) inside
\* try/except; an error is shown and st.stop() ends the run
LoadData(s) ==
    /\ pc[s] = "start"
    /\ \E mode \in {"mock", "db"} :
       \E resp \in IF mode = "db" THEN DbResponses ELSE {"ok"} :
         LET r == load_data(mode, file, resp, db)
         IN  /\ use_db' = [use_db EXCEPT ![s] = (mode = "db")]
             /\ loaded' = [loaded EXCEPT ![s] = r]
             /\ Touch(s, IF mode = "mock" THEN {"file_load"}
                         ELSE IF resp = "import_error" THEN {} ELSE {"db_select"})
             /\ IF r.err = "none"
                THEN Goto(s, "form") /\ UNCHANGED msgs
                ELSE End(s, "stop") /\ Show(s, {HandlerOf(r.err)})
    /\ UNCHANGED <<file, db, uploads, now, envConfigured, runs, cand, detection,
                   detected, saved_path, new_record, existing>>
    /\ UNCHANGED fvars
    /\ UNCHANGED pvars

\* the form is submitted: validation, the success banner, then the
\* detection of constellations on a temporary copy of the photo
Submit(s, forms, services) ==
    /\ pc[s] = "form"
    /\ \E c \in forms :
         /\ cand' = [cand EXCEPT ![s] = c]
         /\ IF Validate(c) # "ok"
            THEN /\ Show(s, {Validate(c)})
                 /\ End(s, "finished")
                 /\ UNCHANGED <<io, detection, detected>>
            ELSE \E e \in services :
                   LET d == setConstellation(e)
                   IN  /\ Touch(s, {"tempfile", "detect_request"})
                       /\ detection' = [detection EXCEPT ![s] = DetectionOutcome(e)]
                       /\ CASE d.kind = "exit" ->
                                 /\ Show(s, {"submitted_ok"})
                                 /\ End(s, "SystemExit")
                                 /\ UNCHANGED detected
                            [] d.kind = "raise" ->
                                 /\ Show(s, {"submitted_ok", "detection_failed"})
                                 /\ Goto(s, "save")
                                 /\ UNCHANGED detected
                            [] OTHER ->
                                 /\ Show(s, {"submitted_ok",
                                             IF d.value # <<>> THEN "detected"
                                             ELSE "no_constellations"})
                                 /\ Goto(s, "save")
                                 /\ detected' = [detected EXCEPT ![s] = Bound(d.value)]
    /\ UNCHANGED <<file, db, uploads, now, envConfigured, runs, use_db, loaded,
                   saved_path, new_record, existing>>
    /\ UNCHANGED fvars
    /\ UNCHANGED pvars

\* the photo is written to uploads/ under <clock to the second>_<name>
SaveImage(s) ==
    /\ pc[s] = "save"
    /\ \E written \in BOOLEAN :
         LET path == SavedPath(now, cand[s].uploaded_file)
         IN  IF written
             THEN /\ uploads' = {u \in uploads : u.path # path}
                                  \cup {[path |-> path, data |-> <<s, runs[s]>>]}
                  /\ saved_path' = [saved_path EXCEPT ![s] = path]
                  /\ Touch(s, {"upload_write"})
                  /\ Goto(s, "build")
                  /\ UNCHANGED msgs
             ELSE /\ Show(s, {"persist_failed"})
                  /\ End(s, "finished")
                  /\ UNCHANGED <<uploads, saved_path, io>>
    /\ UNCHANGED <<file, db, now, envConfigured, runs, use_db, loaded, cand,
                   detection, detected, new_record, existing>>
    /\ UNCHANGED fvars
    /\ UNCHANGED pvars

\* new_record is built: the clock is read for the id and again for the
\* timestamp; an unbound detected_constellations raises NameError, which
\* the outer except reports
BuildRecord(s) ==
    /\ pc[s] = "build"
    /\ IF detected[s].bound
       THEN \E later \in {now, now + 1} :
              /\ later <= MaxClock
              /\ now' = later
              /\ new_record' = [new_record EXCEPT ![s] =
                     NewRecord(cand[s], saved_path[s], now, later, detected[s].names)]
              /\ Goto(s, IF use_db[s] THEN "insert" ELSE "read")
              /\ UNCHANGED msgs
       ELSE /\ Show(s, {"persist_failed"})
            /\ End(s, "finished")
            /\ UNCHANGED <<now, new_record>>
    /\ UNCHANGED <<file, db, uploads, envConfigured, runs, use_db, loaded, cand,
                   detection, detected, io, saved_path, existing>>
    /\ UNCHANGED fvars
    /\ UNCHANGED pvars

\* use_db: the row is inserted into the remote table, which is keyed by id;
\* any exception is shown by the inner except, then the script reruns
InsertRow(s) ==
    /\ pc[s] = "insert"
    /\ IF ~envConfigured
       THEN /\ Show(s, {"db_failed", "refreshing"})
            /\ UNCHANGED <<db, io>>
       ELSE \E accepted \in BOOLEAN :
              /\ Touch(s, {"db_insert"})
              /\ IF accepted /\ \A i \in 1..Len(db) : db[i].id # new_record[s].id
                 THEN /\ db' = Append(db, InsertPayload(new_record[s]))
                      /\ Show(s, {"saved_db", "refreshing"})
                 ELSE /\ Show(s, {"db_failed", "refreshing"})
                      /\ UNCHANGED db
    /\ End(s, "rerun")
    /\ UNCHANGED <<file, uploads, now, envConfigured, runs, use_db, loaded, cand,
                   detection, detected, saved_path, new_record, existing>>
    /\ UNCHANGED fvars
    /\ UNCHANGED pvars

\* local append, first half: mock_data.json is read back whole
ReadFile(s) ==
    /\ pc[s] = "read"
    /\ LET r == ReadExisting(file)
       IN  IF r.err = "none"
           THEN /\ existing' = [existing EXCEPT ![s] = r.v]
                /\ Goto(s, "write")
                /\ UNCHANGED msgs
           ELSE /\ Show(s, {"mock_failed", "refreshing"})
                /\ End(s, "rerun")
                /\ UNCHANGED existing
    /\ Touch(s, {"file_read"})
    /\ UNCHANGED <<file, db, uploads, now, envConfigured, runs, use_db, loaded,
                   cand, detection, detected, saved_path, new_record>>
    /\ UNCHANGED fvars
    /\ UNCHANGED pvars

\* WriteFile under a lock held since the read: the append is made to the
\* file as it is when it is rewritten
WriteFileLocked(s) ==
    /\ pc[s] = "write"
    /\ \E result \in {"written", "open_failed", "dump_failed"} :
         CASE result = "written" ->
                /\ file' = Rewritten(IF file.kind = "list" THEN file.recs ELSE existing[s],
                                     new_record[s])
                /\ Show(s, {"added_mock", "refreshing"})
           [] result = "open_failed" ->
                /\ Show(s, {"mock_failed", "refreshing"})
                /\ UNCHANGED file
           [] OTHER ->
                /\ file' = FileOf("garbage", <<>>)
                /\ Show(s, {"mock_failed", "refreshing"})
    /\ Touch(s, {"file_write"})
    /\ End(s, "rerun")
    /\ UNCHANGED <<db, uploads, now, envConfigured, runs, use_db, loaded, cand,
                   detection, detected, saved_path, new_record, existing>>
    /\ UNCHANGED fvars
    /\ UNCHANGED pvars

\* local append, second half: the array plus new_record is written over the
\* file; open() may fail, and a failed dump leaves a truncated file
WriteFile(s) ==
    /\ pc[s] = "write"
    /\ \E result \in {"written", "open_failed", "dump_failed"} :
         CASE result = "written" ->
                /\ file' = Rewritten(existing[s], new_record[s])
                /\ Show(s, {"added_mock", "refreshing"})
           [] result = "open_failed" ->
                /\ Show(s, {"mock_failed", "refreshing"})
                /\ UNCHANGED file
           [] OTHER ->
                /\ file' = FileOf("garbage", <<>>)
                /\ Show(s, {"mock_failed", "refreshing"})
    /\ Touch(s, {"file_write"})
    /\ End(s, "rerun")
    /\ UNCHANGED <<db, uploads, now, envConfigured, runs, use_db, loaded, cand,
                   detection, detected, saved_path, new_record, existing>>
    /\ UNCHANGED fvars
    /\ UNCHANGED pvars

\* the script runs again from the top (st.rerun, or the next interaction);
\* a whole script run takes more than one tick of the clock
Rerun(s) ==
    /\ pc[s] = "end"
    /\ runs[s] < MaxRuns
    /\ now < MaxClock
    /\ now' = now + 1
    /\ runs' = [runs EXCEPT ![s] = @ + 1]
    /\ pc' = [pc EXCEPT ![s] = "start"]
    /\ use_db' = [use_db EXCEPT ![s] = FALSE]
    /\ loaded' = [loaded EXCEPT ![s] = NotLoaded]
    /\ cand' = [cand EXCEPT ![s] = NoCand]
    /\ detection' = [detection EXCEPT ![s] = "none"]
    /\ detected' = [detected EXCEPT ![s] = Unbound]
    /\ msgs' = [msgs EXCEPT ![s] = {}]
    /\ io' = [io EXCEPT ![s] = {}]
    /\ saved_path' = [saved_path EXCEPT ![s] = NoPath]
    /\ new_record' = [new_record EXCEPT ![s] = NoRecord]
    /\ existing' = [existing EXCEPT ![s] = <<>>]
    /\ ended' = [ended EXCEPT ![s] = "running"]
    /\ UNCHANGED <<file, db, uploads, envConfigured>>
    /\ UNCHANGED fvars
    /\ UNCHANGED pvars

\* time passes
Tick ==
    /\ now < MaxClock
    /\ now' = now + 1
    /\ UNCHANGED <<file, db, uploads, envConfigured, pc, runs, use_db, loaded, cand,
                   detection, detected, msgs, io, saved_path, new_record, existing, ended>>
    /\ UNCHANGED fvars
    /\ UNCHANGED pvars

\* the sidebar widgets are read
Sidebar(s) ==
    /\ pc[s] = "form"
    /\ step = "sidebar"
    /\ \E date_range \in DateRanges, min_brightness \in MinBrightness,
          const_filter \in ConstFilters, center \in Centers, radius_km \in Radii :
         params' = Params(date_range, min_brightness, const_filter, center, radius_km, "D")
    /\ step' = "date"
    /\ UNCHANGED <<stage_in, filtered, area_filtered, ts>>
    /\ UNCHANGED svars
    /\ UNCHANGED pvars

\* filtered = df.copy(), then the date range
FilterDate(s) ==
    /\ pc[s] = "form"
    /\ step = "date"
    /\ stage_in' = loaded[s].df
    /\ filtered' = DateStage(loaded[s].df, params.date_range)
    /\ step' = "brightness"
    /\ UNCHANGED <<params, area_filtered, ts>>
    /\ UNCHANGED svars
    /\ UNCHANGED pvars

\* the minimum brightness
FilterBrightness(s) ==
    /\ pc[s] = "form"
    /\ step = "brightness"
    /\ stage_in' = filtered
    /\ filtered' = BrightnessStage(filtered, params.min_brightness)
    /\ step' = "constellation"
    /\ UNCHANGED <<params, area_filtered, ts>>
    /\ UNCHANGED svars
    /\ UNCHANGED pvars

\* the constellation filter box
FilterConstellation(s) ==
    /\ pc[s] = "form"
    /\ step = "constellation"
    /\ stage_in' = filtered
    /\ filtered' = ConstellationStage(filtered, params.const_filter)
    /\ step' = "area"
    /\ UNCHANGED <<params, area_filtered, ts>>
    /\ UNCHANGED svars
    /\ UNCHANGED pvars

\* area_filtered: the rows of filtered within radius_km of the centre
FilterArea(s) ==
    /\ pc[s] = "form"
    /\ step = "area"
    /\ stage_in' = filtered
    /\ area_filtered' = AreaStage(filtered, params.center_lat, params.center_lon,
                                  params.radius_km)
    /\ step' = "trends"
    /\ UNCHANGED <<params, filtered, ts>>
    /\ UNCHANGED svars
    /\ UNCHANGED pvars

\* the Trends tab: the aggregation selectbox, then time_series(area_filtered)
Trends(s) ==
    /\ pc[s] = "form"
    /\ step = "trends"
    /\ \E freq \in Freqs :
         /\ params' = [params EXCEPT !.freq = freq]
         /\ ts' = time_series(area_filtered, freq)
    /\ step' = "done"
    /\ UNCHANGED <<stage_in, filtered, area_filtered>>
    /\ UNCHANGED svars
    /\ UNCHANGED pvars

\* One session at a time, as the app is written (single-threaded,
\* request/response): session 1 with every form input and every service
\* behaviour.
Next ==
    \/ LoadData(1)
    \/ Submit(1, Candidates, Services)
    \/ SaveImage(1)
    \/ BuildRecord(1)
    \/ InsertRow(1)
    \/ ReadFile(1)
    \/ WriteFile(1)
    \/ Rerun(1)
    \/ Tick

Spec == Init /\ [][Next]_vars

\* Two sessions served concurrently by the Streamlit server, each running
\* the script once in its own thread, started on well-formed stores.
RaceCandidates == { Cand(407128, -740060, 3, "sky.jpg"), Cand(LatMax, LonMax, 5, "night.png") }

RaceServices ==
    { Service("success", "success", "job", <<"success">>, Objects(<<Obj("Orion", TRUE)>>)) }

InitRace ==
    /\ Init
    /\ file = FileOf("list", <<GoodEntry>>)
    /\ db = <<GoodRow>>

NextRace ==
    \/ \E s \in Sessions : LoadData(s)
    \/ \E s \in Sessions : Submit(s, RaceCandidates, RaceServices)
    \/ \E s \in Sessions : SaveImage(s)
    \/ \E s \in Sessions : BuildRecord(s)
    \/ \E s \in Sessions : InsertRow(s)
    \/ \E s \in Sessions : ReadFile(s)
    \/ \E s \in Sessions : WriteFile(s)
    \/ Tick

SpecRace == InitRace /\ [][NextRace]_vars

\* One script run of session 1 from load_data through the sidebar, the
\* filter stages and the Trends tab, on the stores of FilterStoreInits.
InitFilter ==
    /\ \E st \in FilterStoreInits : file = st[1] /\ db = st[2]
    /\ uploads = {}
    /\ now = 0
    /\ envConfigured = TRUE
    /\ pc = [s \in Sessions |-> "start"]
    /\ runs = [s \in Sessions |-> 1]
    /\ use_db = [s \in Sessions |-> FALSE]
    /\ loaded = [s \in Sessions |-> NotLoaded]
    /\ cand = [s \in Sessions |-> NoCand]
    /\ detection = [s \in Sessions |-> "none"]
    /\ detected = [s \in Sessions |-> Unbound]
    /\ msgs = [s \in Sessions |-> {}]
    /\ io = [s \in Sessions |-> {}]
    /\ saved_path = [s \in Sessions |-> NoPath]
    /\ new_record = [s \in Sessions |-> NoRecord]
    /\ existing = [s \in Sessions |-> <<>>]
    /\ ended = [s \in Sessions |-> "running"]
    /\ params = NoParams
    /\ step = "sidebar"
    /\ stage_in = <<>>
    /\ filtered = <<>>
    /\ area_filtered = <<>>
    /\ ts = <<>>
    /\ astrometry = NoService
    /\ detect_pc = "idle"
    /\ retry_count = 0
    /\ requests = 0
    /\ polled = NotPolled
    /\ returned = Running

NextFilter ==
    \/ LoadData(1)
    \/ Sidebar(1)
    \/ FilterDate(1)
    \/ FilterBrightness(1)
    \/ FilterConstellation(1)
    \/ FilterArea(1)
    \/ Trends(1)

SpecFilter == InitFilter /\ [][NextFilter]_vars

\* load_data alone, on the stores of StoreInits and on stores whose raw
\* records hold numbers outside the ranges of the canonical table
WideFileInits ==
    { FileOf("list", <<GoodEntry, SeedEntry(3, Num(LatMax + 1), TsNaive(0), Num(3))>>),
      FileOf("list", <<GoodEntry,
                       [SeedEntry(3, Num(1), TsNaive(0), Num(3))
                          EXCEPT !.longitude = Num(-(LonMax + 1))]>>),
      FileOf("list", <<SeedEntry(3, Num(1), TsNaive(0), Num(9)), GoodEntry>>),
      FileOf("list", <<GoodEntry, SeedEntry(3, Num(1), TsNaive(0), Num(0))>>) }

WideDbInits ==
    { <<GoodRow, SeedRow(4, Num(-(LatMax + 1)), TsZulu(1), Num(3))>>,
      <<SeedRow(4, Num(1), TsZulu(1), Num(6)), GoodRow>> }

LoadInits ==
    StoreInits \cup
    { <<f, <<GoodRow>> >> : f \in WideFileInits } \cup
    { <<FileOf("list", <<GoodEntry>>), d>> : d \in WideDbInits }

InitLoad ==
    /\ \E st \in LoadInits : file = st[1] /\ db = st[2]
    /\ uploads = {}
    /\ now = 0
    /\ envConfigured \in BOOLEAN
    /\ pc = [s \in Sessions |-> "start"]
    /\ runs = [s \in Sessions |-> 1]
    /\ use_db = [s \in Sessions |-> FALSE]
    /\ loaded = [s \in Sessions |-> NotLoaded]
    /\ cand = [s \in Sessions |-> NoCand]
    /\ detection = [s \in Sessions |-> "none"]
    /\ detected = [s \in Sessions |-> Unbound]
    /\ msgs = [s \in Sessions |-> {}]
    /\ io = [s \in Sessions |-> {}]
    /\ saved_path = [s \in Sessions |-> NoPath]
    /\ new_record = [s \in Sessions |-> NoRecord]
    /\ existing = [s \in Sessions |-> <<>>]
    /\ ended = [s \in Sessions |-> "running"]
    /\ params = NoParams
    /\ step = "sidebar"
    /\ stage_in = <<>>
    /\ filtered = <<>>
    /\ area_filtered = <<>>
    /\ ts = <<>>
    /\ astrometry = NoService
    /\ detect_pc = "idle"
    /\ retry_count = 0
    /\ requests = 0
    /\ polled = NotPolled
    /\ returned = Running

NextLoad == \E s \in Sessions : LoadData(s)

SpecLoad == InitLoad /\ [][NextLoad]_vars

\* One session, the only writer of the stores, submitting again and again
\* with a service that answers, on every store of StoreInits.
NextSingle ==
    \/ LoadData(1)
    \/ Submit(1, RaceCandidates, RaceServices)
    \/ SaveImage(1)
    \/ BuildRecord(1)
    \/ InsertRow(1)
    \/ ReadFile(1)
    \/ WriteFile(1)
    \/ Rerun(1)
    \/ Tick

SpecSingle == Init /\ [][NextSingle]_vars

\* mock_data.json is replaced from outside the app, by hand or by another
\* tool, with a JSON document that is no array
ReplaceFile ==
    /\ file.kind = "list"
    /\ file' = FileOf("object", <<>>)
    /\ UNCHANGED <<db, uploads, now, envConfigured, pc, runs, use_db, loaded, cand,
                   detection, detected, msgs, io, saved_path, new_record, existing, ended>>
    /\ UNCHANGED fvars
    /\ UNCHANGED pvars

\* One session on well-formed stores, while the local file may be replaced
\* between the load at the top of the script and the append.
NextExternal ==
    \/ LoadData(1)
    \/ Submit(1, RaceCandidates, RaceServices)
    \/ SaveImage(1)
    \/ BuildRecord(1)
    \/ InsertRow(1)
    \/ ReadFile(1)
    \/ WriteFile(1)
    \/ Tick
    \/ ReplaceFile

SpecExternal == InitRace /\ [][NextExternal]_vars

(* ------------------ one call of setConstellation ---------------------- *)
\* The statuses the job polls see: k - 1 polls without a verdict ("solving",
\* or a network error raised by requests.get), then the status last.
Filler(i) == IF i % 2 = 0 THEN "neterr" ELSE "solving"
JobEnding(k, last) == [i \in 1..k |-> IF i = k THEN last ELSE Filler(i)]
Endings == {"success", "failure", "failed", "error", "unexpected"}

PollJobs ==
    {JobEnding(k, last) : k \in 1..(MAX_JOB_POLLS + 1), last \in Endings} \cup {<<>>}

PollServices ==
    Services
    \cup { Service("success", "success", "job", j,
                    Objects(<<Obj("Orion", TRUE), Obj("M42", FALSE)>>)) : j \in PollJobs }
    \cup { Service("nosession", "success", "job", <<"success">>, Objects(<<>>)),
           Service("success", "nosubid", "job", <<"success">>, Objects(<<>>)) }

\* for retry_count in range(MAX_JOB_POLLS + 1)
InRangeOneMore(i) == i <= MAX_JOB_POLLS

\* for retry_count in range(MAX_JOB_POLLS)
InRange(i) == i < MAX_JOB_POLLS

\* session_key = login(ASTROMETRY_API_KEY): sys.exit(1) on a failed login;
\* without a session key the function returns None, which the caller
\* turns into []
DetectLogin ==
    /\ detect_pc = "login"
    /\ CASE astrometry.login \in {"failed", "error"} ->
              returned' = SysExit /\ detect_pc' = "returned"
         [] astrometry.login = "nosession" ->
              returned' = Returned(<<>>) /\ detect_pc' = "returned"
         [] OTHER -> detect_pc' = "upload" /\ UNCHANGED returned
    /\ UNCHANGED <<astrometry, retry_count, requests, polled>>
    /\ UNCHANGED svars
    /\ UNCHANGED fvars

\* submission_id = upload_image(session_key, imageJPEG)
DetectUpload ==
    /\ detect_pc = "upload"
    /\ CASE astrometry.upload \in {"failed", "error"} ->
              returned' = SysExit /\ detect_pc' = "returned"
         [] astrometry.upload = "nosubid" ->
              returned' = Returned(<<>>) /\ detect_pc' = "returned"
         [] OTHER -> detect_pc' = "submission" /\ UNCHANGED returned
    /\ UNCHANGED <<astrometry, retry_count, requests, polled>>
    /\ UNCHANGED svars
    /\ UNCHANGED fvars

\* PollSubmission that fails when the submission has no job yet
PollSubmissionStrict ==
    /\ detect_pc = "submission"
    /\ CASE astrometry.sub \in {"error", "nojob"} ->
              returned' = Raised /\ detect_pc' = "returned"
         [] OTHER -> detect_pc' = "job" /\ UNCHANGED returned
    /\ UNCHANGED <<astrometry, retry_count, requests, polled>>
    /\ UNCHANGED svars
    /\ UNCHANGED fvars

\* time.sleep(30); job_id = poll_submission_status(submission_id), one
\* request; if not job_id: return []
PollSubmission ==
    /\ detect_pc = "submission"
    /\ CASE astrometry.sub = "error" ->
              returned' = Raised /\ detect_pc' = "returned"
         [] astrometry.sub = "nojob" ->
              returned' = Returned(<<>>) /\ detect_pc' = "returned"
         [] OTHER -> detect_pc' = "job" /\ UNCHANGED returned
    /\ UNCHANGED <<astrometry, retry_count, requests, polled>>
    /\ UNCHANGED svars
    /\ UNCHANGED fvars

\* poll_job_status(job_id): one turn of the for loop, or the return False
\* after it; on False setConstellation returns []
PollJob ==
    /\ detect_pc = "job"
    /\ IF ~InRange(retry_count)
       THEN /\ polled' = PollResult(FALSE, requests, "exhausted")
            /\ returned' = Returned(<<>>)
            /\ detect_pc' = "returned"
            /\ UNCHANGED <<retry_count, requests>>
       ELSE LET st == StatusAt(astrometry.job, retry_count)
            IN  /\ requests' = requests + 1
                /\ CASE st = "success" ->
                          /\ polled' = PollResult(TRUE, requests + 1, "success")
                          /\ detect_pc' = "results"
                          /\ UNCHANGED <<retry_count, returned>>
                     [] st \in {"failure", "failed", "error"} ->
                          /\ polled' = PollResult(FALSE, requests + 1, "failure")
                          /\ returned' = Returned(<<>>)
                          /\ detect_pc' = "returned"
                          /\ UNCHANGED retry_count
                     [] st = "unexpected" ->
                          /\ polled' = PollResult(FALSE, requests + 1, "unexpected")
                          /\ returned' = Returned(<<>>)
                          /\ detect_pc' = "returned"
                          /\ UNCHANGED retry_count
                     [] OTHER ->
                          /\ retry_count' = retry_count + 1
                          /\ UNCHANGED <<polled, detect_pc, returned>>
    /\ UNCHANGED astrometry
    /\ UNCHANGED svars
    /\ UNCHANGED fvars

\* constellation = get_job_results(job_id); return constellation
GetResults ==
    /\ detect_pc = "results"
    /\ returned' = IF astrometry.objects.error THEN Raised
                   ELSE Returned(ConstellationsOf(astrometry.objects.list))
    /\ detect_pc' = "returned"
    /\ UNCHANGED <<astrometry, retry_count, requests, polled>>
    /\ UNCHANGED svars
    /\ UNCHANGED fvars

\* One call of setConstellation against each behaviour of the service.
InitPoll ==
    /\ file = FileOf("list", <<GoodEntry>>)
    /\ db = <<GoodRow>>
    /\ uploads = {}
    /\ now = 0
    /\ envConfigured = TRUE
    /\ pc = [s \in Sessions |-> "start"]
    /\ runs = [s \in Sessions |-> 1]
    /\ use_db = [s \in Sessions |-> FALSE]
    /\ loaded = [s \in Sessions |-> NotLoaded]
    /\ cand = [s \in Sessions |-> NoCand]
    /\ detection = [s \in Sessions |-> "none"]
    /\ detected = [s \in Sessions |-> Unbound]
    /\ msgs = [s \in Sessions |-> {}]
    /\ io = [s \in Sessions |-> {}]
    /\ saved_path = [s \in Sessions |-> NoPath]
    /\ new_record = [s \in Sessions |-> NoRecord]
    /\ existing = [s \in Sessions |-> <<>>]
    /\ ended = [s \in Sessions |-> "running"]
    /\ params = NoParams
    /\ step = "sidebar"
    /\ stage_in = <<>>
    /\ filtered = <<>>
    /\ area_filtered = <<>>
    /\ ts = <<>>
    /\ astrometry \in PollServices
    /\ detect_pc = "login"
    /\ retry_count = 0
    /\ requests = 0
    /\ polled = NotPolled
    /\ returned = Running

NextPoll ==
    \/ DetectLogin
    \/ DetectUpload
    \/ PollSubmission
    \/ PollJob
    \/ GetResults

\* every request is answered or raises, and the sleeps end: a step that
\* can be taken is taken
SpecPoll == InitPoll /\ [][NextPoll]_vars /\ WF_vars(NextPoll)

TypeOK ==
    /\ file.kind \in {"missing", "garbage", "object", "list"}
    /\ now \in 0..MaxClock
    /\ \A s \in Sessions : pc[s] \in {"start", "form", "save", "build", "insert", "read", "write", "end"}
    /\ step \in {"sidebar", "date", "brightness", "constellation", "area", "trends", "done"}

(* ------------------------ notions used by the claims ------------------ *)
Submitted(s) == cand[s] # NoCand
Validated(s) == Submitted(s) /\ Validate(cand[s]) = "ok"

\* the run's record is in the store the run writes to
Persisted(s) ==
    IF use_db[s]
    THEN \E i \in 1..Len(db) : db[i] = InsertPayload(new_record[s])
    ELSE file.kind = "list" /\ \E i \in 1..Len(file.recs) : file.recs[i] = ToJson(new_record[s])

\* the image write or the store append itself failed
StorageFailed(s) ==
    \/ "mock_failed" \in msgs[s]
    \/ "db_failed" \in msgs[s]
    \/ "persist_failed" \in msgs[s] /\ "upload_write" \notin io[s]

\* files and requests of the submit handler
HandlerIO == {"tempfile", "detect_request", "upload_write", "file_read", "file_write", "db_insert"}

\* the contract of a candidate submission (spec section 3 and 4.5)
InContract(c) ==
    /\ -LatMax <= c.latitude /\ c.latitude <= LatMax
    /\ -LonMax <= c.longitude /\ c.longitude <= LonMax
    /\ c.brightness_rating \in 1..5
    /\ c.uploaded_file # "none"

\* the table r holds the record rec: same id, coordinates, brightness and instant
Holds(r, rec) ==
    /\ r.err = "none"
    /\ \E i \in 1..Len(r.df) :
         /\ r.df[i].id = rec.id
         /\ r.df[i].latitude = rec.latitude
         /\ r.df[i].longitude = rec.longitude
         /\ r.df[i].brightness_rating = rec.brightness_rating
         /\ r.df[i].timestamp = rec.timestamp.w

AppendedLocally(s) == pc[s] = "end" /\ "added_mock" \in msgs[s]

(* -------------------------------- C1 ---------------------------------- *)
\* C1: a failure of constellation detection never aborts the submission: a
\* validated submission whose detection failed is, unless the storage itself
\* failed, persisted to the active store with empty constellation fields.
C1_DetectionFailureNeverAborts ==
    \A s \in Sessions :
      (pc[s] = "end" /\ Validated(s) /\ detection[s] \notin {"none", "solved"}
         /\ ~StorageFailed(s))
      => /\ ended[s] = "rerun"
         /\ Persisted(s)
         /\ new_record[s].constellation_names = <<>>
         /\ new_record[s].constellation_name = ""

(* -------------------------------- C2 ---------------------------------- *)
\* C2: no two records persisted in one store share an id, also when two
\* submissions read the same value of the clock for their ids.
C2_IdsUnique ==
    /\ file.kind = "list" =>
         \A i, j \in 1..Len(file.recs) : i # j => file.recs[i].id # file.recs[j].id
    /\ \A i, j \in 1..Len(db) : i # j => db[i].id # db[j].id

(* -------------------------------- C3 ---------------------------------- *)
\* C3: the local append takes no lock: when two submissions both read the
\* file before either rewrites it and both rewrite it, the file ends up as
\* what one of them wrote, one record longer than what was read, so the
\* other submission's record is lost.
C3_LastWriterWins ==
    \A s, t \in Sessions :
      (s # t /\ AppendedLocally(s) /\ AppendedLocally(t) /\ existing[s] = existing[t]
         /\ file.kind = "list")
      => /\ Len(file.recs) = Len(existing[s]) + 1
         /\ \/ file = Rewritten(existing[s], new_record[s])
            \/ file = Rewritten(existing[t], new_record[t])

\* both appends reported success, one record is in the file, the other is not
C3_LostUpdate ==
    \E s, t \in Sessions :
      /\ s # t /\ AppendedLocally(s) /\ AppendedLocally(t)
      /\ existing[s] = existing[t]
      /\ Persisted(s)
      /\ ~Persisted(t)

(* -------------------------------- C4 ---------------------------------- *)
\* C4 as stated: after a successful local append, the next load_data call
\* returns a table holding the appended record.
C4_NextLoadHoldsRecord ==
    \A s \in Sessions :
      AppendedLocally(s) => Holds(load_data("mock", file, "ok", db), new_record[s])

\* C4 amended: after a successful local append, as long as the file is as
\* that append left it, load_data returns a table holding the appended
\* record with the same id, latitude, longitude, brightness and instant.
C4_RoundTrip ==
    \A s \in Sessions :
      (AppendedLocally(s) /\ file = Rewritten(existing[s], new_record[s]))
      => Holds(load_data("mock", file, "ok", db), new_record[s])

C4_Appended ==
    \E s \in Sessions :
      /\ AppendedLocally(s)
      /\ file = Rewritten(existing[s], new_record[s])
      /\ new_record[s].latitude = LatMax
      /\ new_record[s].timestamp.w > 0

C6_LatitudeBoundary ==
    \A s \in Sessions :
      (Submitted(s) /\ cand[s].uploaded_file # "none"
         /\ -LonMax <= cand[s].longitude /\ cand[s].longitude <= LonMax)
      => /\ cand[s].latitude \in {LatMax, -LatMax}
              => "submitted_ok" \in msgs[s] /\ "invalid_coordinates" \notin msgs[s]
         /\ (cand[s].latitude > LatMax \/ cand[s].latitude < -LatMax)
              => /\ msgs[s] = {"invalid_coordinates"}
                 /\ pc[s] = "end"
                 /\ io[s] \cap HandlerIO = {}

\* a submission at latitude exactly 90.0 went through and is in the store
C6_AcceptedAtBound ==
    \E s \in Sessions :
      /\ cand[s].latitude = LatMax
      /\ pc[s] = "end" /\ ended[s] = "rerun"
      /\ Persisted(s)

(* -------------------------------- C7 ---------------------------------- *)
\* C7: when the store append fails after validation, the run ends in a
\* write error: it has not reported the submission as successful and does
\* not go on as after a successful append.
C7_WriteErrorNotSwallowed ==
    \A s \in Sessions :
      (pc[s] = "end" /\ msgs[s] \cap {"mock_failed", "db_failed"} # {})
      => /\ "submitted_ok" \notin msgs[s]
         /\ ended[s] # "rerun"

(* -------------------------------- C8 ---------------------------------- *)
\* the fetch of the run failed: the local file is missing or unparsable, or
\* the remote query failed
JustLoaded(s) == pc[s] = "form" \/ (pc[s] = "end" /\ ended[s] = "stop")

FetchFailed(s) ==
    /\ JustLoaded(s)
    /\ IF use_db[s] THEN loaded[s].cause = "ConnectionError"
       ELSE file.kind \in {"missing", "garbage"}

\* C8: every fetch failure of either store reaches the caller of load_data
\* as one error kind that wraps its cause, handled by one except clause.
C8_OneErrorKind ==
    \A s \in Sessions :
      FetchFailed(s)
      => /\ loaded[s].err = "RuntimeError"
         /\ loaded[s].cause # "none"
         /\ msgs[s] = {"load_failed"}

(* -------------------------------- C9 ---------------------------------- *)
\* C9: with the endpoint or key missing, the db-mode load and the remote
\* append end in a configuration error the caller can tell from any other
\* failure, and no request has been sent to the remote store.
C9_ConfigurationErrorFirst ==
    \A s \in Sessions :
      (~envConfigured /\ use_db[s] /\ pc[s] # "start" /\ loaded[s].err # "ImportError")
      => /\ loaded[s].err = "ValueError"
         /\ "configuration_error" \in msgs[s]
         /\ io[s] \cap {"db_select", "db_insert"} = {}

(* -------------------------------- C10 --------------------------------- *)
Convertible(x) == x.t \in {"num", "numstr"}
Parsable(x) == x.t \in {"naive", "zoned"}

\* some raw record of the store read by the run cannot be normalised
StoreMalformed(s) ==
    IF use_db[s]
    THEN \E i \in 1..Len(db) :
           \/ ~Convertible(db[i].lat) \/ ~Convertible(db[i].long)
           \/ ~Convertible(db[i].brightness_level) \/ ~Parsable(db[i].created_at)
    ELSE file.kind = "list" /\ \E i \in 1..Len(file.recs) :
           \/ ~Convertible(file.recs[i].latitude) \/ ~Convertible(file.recs[i].longitude)
           \/ ~Convertible(file.recs[i].brightness_rating) \/ ~Parsable(file.recs[i].timestamp)

StoreEmpty(s) == IF use_db[s] THEN db = <<>> ELSE file.kind = "list" /\ file.recs = <<>>

\* C10: load_data never hides a failure as an empty or partial table: a
\* failed fetch or a record that cannot be normalised ends load_data in an
\* error with no table, and an empty table means an empty store.
C10_NoHiddenFailure ==
    \A s \in Sessions :
      JustLoaded(s)
      => /\ (FetchFailed(s) \/ StoreMalformed(s))
              => loaded[s].err # "none" /\ loaded[s].df = <<>>
         /\ (loaded[s].err = "none" /\ loaded[s].df = <<>>) => StoreEmpty(s)

(* ---------------- notions used by the filter claims ------------------- *)
\* the table of the run
Table(s) == loaded[s].df

\* the row is in the table out
Kept(row, out) == \E j \in 1..Len(out) : out[j] = row

\* the constellation stage has run with a non-empty filter string
ConstellationFiltered(s) ==
    pc[s] = "form" /\ step = "area" /\ params.const_filter # ""

\* the filter string is a case-insensitive substring of the text
InText(text, f) == Contains(Lower(text), Lower(f))

(* -------------------------------- C11 --------------------------------- *)
\* C11: for a non-empty filter string f the constellation stage keeps a row
\* if and only if f is a case-insensitive substring of some entry of
\* constellation_names when that sequence is non-empty, and otherwise if and
\* only if f is a case-insensitive substring of constellation_name.
C11_ConstellationMatch ==
    \A s \in Sessions :
      ConstellationFiltered(s) =>
        \A i \in 1..Len(stage_in) :
          Kept(stage_in[i], filtered)
          <=> IF stage_in[i].constellation_names # <<>>
              THEN \E k \in 1..Len(stage_in[i].constellation_names) :
                     InText(stage_in[i].constellation_names[k], params.const_filter)
              ELSE InText(stage_in[i].constellation_name, params.const_filter)

(* -------------------------------- C12 --------------------------------- *)
\* the date stage has run with a start date and an end date
DateFiltered(s) ==
    pc[s] = "form" /\ step = "brightness" /\ Len(params.date_range) = 2

\* C12: given a start date and an end date, the date stage keeps exactly the
\* rows whose UTC timestamp falls on a day d with start <= d <= end: every
\* instant of the end day up to the last one before the next day is kept,
\* and no row of an earlier or later day is kept.
C12_WholeDaysKept ==
    \A s \in Sessions :
      DateFiltered(s) =>
        \A i \in 1..Len(stage_in) :
          Kept(stage_in[i], filtered)
          <=> /\ params.date_range[1] <= DayOf(stage_in[i].timestamp)
              /\ DayOf(stage_in[i].timestamp) <= params.date_range[2]

(* -------------------------------- C13 --------------------------------- *)
\* the Trends tab has drawn its chart
Charted(s) == pc[s] = "form" /\ step = "done"

\* first day of the month of a day
MonthStart(day) == IF MonthOf(day) = 1 THEN 0 ELSE MonthEnds[MonthOf(day) - 1] + 1

\* the calendar bucket of an instant: its day, its week (Monday to Sunday)
\* or its month
BucketOf(freq, instant) ==
    CASE freq = "D" -> DayOf(instant)
      [] freq = "W" -> DayOf(instant) \div DaysPerWeek
      [] OTHER -> MonthOf(DayOf(instant))

\* the rows of the table that fall in the bucket of the instant
RowsInBucket(rows, freq, instant) ==
    SelectSeq(rows, LAMBDA r : BucketOf(freq, r.timestamp) = BucketOf(freq, instant))

PopulatedBuckets(rows, freq) == {BucketOf(freq, rows[i].timestamp) : i \in 1..Len(rows)}

\* C13: the time series has exactly one pair for each bucket that holds at
\* least one record, no pair for a bucket without records, also between two
\* populated buckets, and its pairs are in strictly ascending order.
C13_OnlyPopulatedBuckets ==
    \A s \in Sessions :
      Charted(s) =>
        /\ \A i \in 1..Len(ts) : RowsInBucket(area_filtered, params.freq, ts[i].timestamp) # <<>>
        /\ \A b \in PopulatedBuckets(area_filtered, params.freq) :
             Cardinality({i \in 1..Len(ts) : BucketOf(params.freq, ts[i].timestamp) = b}) = 1
        /\ \A i \in 1..Len(ts), j \in 1..Len(ts) : i < j => ts[i].timestamp < ts[j].timestamp

(* -------------------------------- C14 --------------------------------- *)
\* the start of the bucket of an instant: of its day, of its week (the
\* Monday) or of its month
BucketStart(freq, instant) ==
    CASE freq = "D" -> StartOfDay(DayOf(instant))
      [] freq = "W" -> StartOfDay(DaysPerWeek * (DayOf(instant) \div DaysPerWeek))
      [] OTHER -> StartOfDay(MonthStart(DayOf(instant)))

\* C14: for each granularity the instant paired with a mean is the start of
\* its bucket, the truncation of the records' timestamps to the beginning of
\* the day, week or month, hence not after any record averaged into the pair.
C14_PairedWithBucketStart ==
    \A s \in Sessions :
      Charted(s) =>
        \A i \in 1..Len(ts) :
          LET members == RowsInBucket(area_filtered, params.freq, ts[i].timestamp)
          IN  \A k \in 1..Len(members) :
                /\ ts[i].timestamp <= members[k].timestamp
                /\ ts[i].timestamp = BucketStart(params.freq, members[k].timestamp)

(* -------------------------------- C15 --------------------------------- *)
Ratings(rows) == [i \in 1..Len(rows) |-> rows[i].brightness_rating]
Days(rows) == [i \in 1..Len(rows) |-> DayOf(rows[i].timestamp)]

\* the mean m is the number n
MeanIs(m, n) == m.count > 0 /\ m.sum = n * m.count

\* ratings [2, 4] on one day and [3] on the next, at day granularity
TwoDaysExample(s) ==
    /\ Charted(s)
    /\ params.freq = "D"
    /\ Ratings(area_filtered) = <<2, 4, 3>>
    /\ Days(area_filtered) = <<0, 0, 1>>

\* C15: each emitted mean is the sum divided by the count of brightness_rating
\* over exactly the records whose timestamps fall in the bucket of the pair;
\* ratings [2, 4] on day 1 and [3] on day 2 give [(day1, 3.0), (day2, 3.0)].
C15_MeanOfBucket ==
    \A s \in Sessions :
      /\ Charted(s) =>
           \A i \in 1..Len(ts) :
             LET members == RowsInBucket(area_filtered, params.freq, ts[i].timestamp)
             IN  /\ ts[i].brightness_rating.sum = SumOf(members)
                 /\ ts[i].brightness_rating.count = Len(members)
      /\ TwoDaysExample(s) =>
           /\ Len(ts) = 2
           /\ ts[1].timestamp = StartOfDay(0) /\ MeanIs(ts[1].brightness_rating, 3)
           /\ ts[2].timestamp = StartOfDay(1) /\ MeanIs(ts[2].brightness_rating, 3)

\* the chart of the example has been drawn
C15_ExampleCharted == \E s \in Sessions : TwoDaysExample(s) /\ Len(ts) = 2

(* -------------------------------- C16 --------------------------------- *)
\* timestamps ascending, rows without a timestamp last
SortedAscending(rows) ==
    \A i \in 1..Len(rows), j \in 1..Len(rows) :
      i < j => \/ rows[j].timestamp = NaT
               \/ rows[i].timestamp # NaT /\ rows[i].timestamp <= rows[j].timestamp

\* sub is what is left of rows when some of its rows are taken out
RECURSIVE IsSubsequence(_, _)
IsSubsequence(sub, rows) ==
    IF sub = <<>> THEN TRUE
    ELSE IF rows = <<>> THEN FALSE
    ELSE IF Head(sub) = Head(rows) THEN IsSubsequence(Tail(sub), Tail(rows))
    ELSE IsSubsequence(sub, Tail(rows))

\* what the stage that ran last returned
StageOut == IF step \in {"trends", "done"} THEN area_filtered ELSE filtered

\* C16: right after load_data, in both store modes, the table is sorted by
\* timestamp ascending; every filter stage returns a subsequence of its
\* input, so filtered and area_filtered are sorted by timestamp ascending.
C16_SortedThroughout ==
    \A s \in Sessions :
      /\ loaded[s].err = "none" => SortedAscending(Table(s))
      /\ (pc[s] = "form" /\ step \notin {"sidebar", "date"}) =>
           /\ IsSubsequence(StageOut, stage_in)
           /\ IsSubsequence(stage_in, Table(s))
           /\ SortedAscending(filtered)
           /\ SortedAscending(area_filtered)

\* a table whose store was not in time order went through all four stages
\* and lost some but not all of its rows
C16_FilteredInOrder ==
    \E s \in Sessions :
      /\ Charted(s)
      /\ ~use_db[s]
      /\ ~SortedAscending([i \in 1..Len(file.recs) |->
             [timestamp |-> parse_timestamp_utc(file.recs[i].timestamp).v]])
      /\ Len(area_filtered) >= 2
      /\ Len(area_filtered) < Len(Table(s))

(* -------------------------------- C17 --------------------------------- *)
\* the four stages in the order the script applies them
Pipeline(rows, p) ==
    AreaStage(ConstellationStage(BrightnessStage(DateStage(rows, p.date_range),
                                                 p.min_brightness),
                                 p.const_filter),
              p.center_lat, p.center_lon, p.radius_km)

\* area_filtered has been computed
AreaFiltered(s) == pc[s] = "form" /\ step \in {"trends", "done"}

\* the date range inner lies within the date range outer
SubRange(inner, outer) ==
    /\ Len(inner) = 2 /\ Len(outer) = 2
    /\ outer[1] <= inner[1] /\ inner[2] <= outer[2]

\* the results of the pipeline when one parameter of p is narrowed: the
\* brightness floor raised, the date range replaced by a sub-range, or the
\* radius decreased
RaisedFloor(rows, p) ==
    { Pipeline(rows, [p EXCEPT !.min_brightness = m]) :
        m \in {x \in MinBrightness : x > p.min_brightness} }
SubRanged(rows, p) ==
    { Pipeline(rows, [p EXCEPT !.date_range = d]) :
        d \in {x \in DateRanges : SubRange(x, p.date_range) /\ x # p.date_range} }
Shrunk(rows, p) ==
    { Pipeline(rows, [p EXCEPT !.radius_km = r]) :
        r \in {x \in Radii : x < p.radius_km} }

\* C17: for any table, all else fixed, raising min_brightness, replacing the
\* date range by a sub-range or decreasing radius_km gives a result that is
\* a subset of the previous result and so never larger.
C17_Monotone ==
    \A s \in Sessions :
      AreaFiltered(s) =>
        /\ area_filtered = Pipeline(Table(s), params)
        /\ \A narrowed \in RaisedFloor(Table(s), params) \cup SubRanged(Table(s), params)
                              \cup Shrunk(Table(s), params) :
             /\ IsSubsequence(narrowed, area_filtered)
             /\ Len(narrowed) <= Len(area_filtered)

\* each of the three parameters, narrowed, gives a strictly smaller result
\* for one table
C17_StrictlyNarrowed ==
    \E s \in Sessions :
      /\ AreaFiltered(s)
      /\ Len(area_filtered) >= 2
      /\ \E narrowed \in RaisedFloor(Table(s), params) :
           narrowed # <<>> /\ Len(narrowed) < Len(area_filtered)
      /\ \E narrowed \in SubRanged(Table(s), params) : Len(narrowed) < Len(area_filtered)
      /\ \E narrowed \in Shrunk(Table(s), params) : Len(narrowed) < Len(area_filtered)

(* -------------------------------- C18 --------------------------------- *)
\* C18: applying the filter pipeline (date range, brightness floor,
\* constellation substring, radius) with the same parameters to its own
\* output returns exactly that output.
C18_Idempotent ==
    \A s \in Sessions :
      AreaFiltered(s) =>
        /\ area_filtered = Pipeline(Table(s), params)
        /\ Pipeline(area_filtered, params) = area_filtered

\* the pipeline of the run took rows out and left rows in, with every
\* stage switched on
C18_FilteredOnce ==
    \E s \in Sessions :
      /\ AreaFiltered(s)
      /\ Len(params.date_range) = 2
      /\ params.const_filter # ""
      /\ area_filtered # <<>>
      /\ Len(area_filtered) < Len(Table(s))

(* -------------------------------- C19 --------------------------------- *)
\* the raw records of the store the run has loaded
RawOf(s) ==
    IF use_db[s]
    THEN [i \in 1..Len(db) |-> [id |-> db[i].id, timestamp |-> db[i].created_at]]
    ELSE [i \in 1..Len(file.recs) |-> [id |-> file.recs[i].id,
                                       timestamp |-> file.recs[i].timestamp]]

\* the instant the table gives the record with this id
InstantOf(s, id) == (CHOOSE r \in {Table(s)[i] : i \in 1..Len(Table(s))} : r.id = id).timestamp

\* C19: a timestamp string without zone information is normalised to the
\* UTC instant with the same wall-clock reading and a zoned string to the
\* equivalent UTC instant, so "2024-01-01T00:00:00" and
\* "2024-01-01T05:00:00+05:00" both become 2024-01-01T00:00:00Z.
C19_NormalizedToUtc ==
    \A s \in Sessions :
      (pc[s] = "form" /\ loaded[s].err = "none") =>
        \A i \in 1..Len(RawOf(s)) :
          LET raw == RawOf(s)[i].timestamp
              instant == InstantOf(s, RawOf(s)[i].id)
          IN  /\ raw.t = "naive" => instant = raw.w
              /\ raw.t = "zoned" => instant + raw.off = raw.w
              /\ raw = TsNaive(At(0, 0, 0)) => instant = At(0, 0, 0)
              /\ raw = TsZoned(At(0, 5 * 3600, 0), FiveHours) => instant = At(0, 0, 0)

\* the table holds the naive midnight string and the +05:00 string, at the
\* same instant
C19_SameInstant ==
    \E s \in Sessions :
      /\ pc[s] = "form" /\ loaded[s].err = "none"
      /\ \E i, j \in 1..Len(RawOf(s)) :
           /\ RawOf(s)[i].timestamp = TsNaive(At(0, 0, 0))
           /\ RawOf(s)[j].timestamp = TsZoned(At(0, 5 * 3600, 0), FiveHours)
           /\ InstantOf(s, RawOf(s)[i].id) = InstantOf(s, RawOf(s)[j].id)

(* -------------------------------- C20 --------------------------------- *)
Positions(rows) == [i \in 1..Len(rows) |-> <<rows[i].latitude, rows[i].longitude>>]

\* rows at (0,0), (0,1) and (10,10), centre (0,0), radius 200 km
ThreePointsExample(s) ==
    /\ AreaFiltered(s)
    /\ Positions(stage_in) = << <<0, 0>>, <<0, 10000>>, <<100000, 100000>> >>
    /\ params.center_lat = 0 /\ params.center_lon = 0
    /\ params.radius_km = TwoHundredKm

\* C20: the geospatial stage keeps exactly the rows whose haversine distance
\* to the centre is <= radius_km; a row at the centre has distance 0 and is
\* kept for every radius >= 0; of rows at (0,0), (0,1), (10,10) with centre
\* (0,0) and radius 200 km exactly the first two are kept.
C20_WithinRadius ==
    \A s \in Sessions :
      /\ AreaFiltered(s) =>
           \A i \in 1..Len(stage_in) :
             LET row == stage_in[i]
                 distance == haversine_km(params.center_lat, params.center_lon,
                                          row.latitude, row.longitude)
             IN  /\ Kept(row, area_filtered) <=> distance <= params.radius_km
                 /\ (row.latitude = params.center_lat /\ row.longitude = params.center_lon)
                      => distance = 0 /\ Kept(row, area_filtered)
      /\ ThreePointsExample(s) => area_filtered = SubSeq(stage_in, 1, 2)

\* the example has been filtered: the row at the centre and the row 111 km
\* away are kept, the row 1568 km away is not
C20_ExampleFiltered == \E s \in Sessions : ThreePointsExample(s) /\ Len(area_filtered) = 2

(* -------------------------------- C21 --------------------------------- *)
\* the four stages in the order of the specification: brightness floor,
\* constellation substring, date range, geospatial radius
SpecifiedOrder(rows, p) ==
    AreaStage(DateStage(ConstellationStage(BrightnessStage(rows, p.min_brightness),
                                           p.const_filter),
                        p.date_range),
              p.center_lat, p.center_lon, p.radius_km)

\* every stage, applied to the table on its own, takes some row out
EveryStageBites(rows, p) ==
    /\ DateStage(rows, p.date_range) # rows
    /\ BrightnessStage(rows, p.min_brightness) # rows
    /\ ConstellationStage(rows, p.const_filter) # rows
    /\ AreaStage(rows, p.center_lat, p.center_lon, p.radius_km) # rows

\* C21: for every table and every parameter set, the table the script
\* computes with its own order of the stages (date range, brightness floor,
\* constellation substring, radius) equals the table the order brightness
\* floor, constellation substring, date range, radius gives.
C21_OrderEquivalent ==
    \A s \in Sessions :
      AreaFiltered(s) => area_filtered = SpecifiedOrder(Table(s), params)

\* a run in which every stage takes rows out, the two orders go through
\* different intermediate tables, and some row is left at the end
C21_AllStagesActive ==
    \E s \in Sessions :
      /\ AreaFiltered(s)
      /\ EveryStageBites(Table(s), params)
      /\ DateStage(Table(s), params.date_range)
           # BrightnessStage(Table(s), params.min_brightness)
      /\ area_filtered # <<>>

(* -------------------------------- C22 --------------------------------- *)
\* the sequence before is the beginning of the sequence after
IsPrefix(before, after) ==
    Len(before) <= Len(after) /\ SubSeq(after, 1, Len(before)) = before

\* the step is a local append of session s that reported success
AppendStep(s) == "added_mock" \notin msgs[s] /\ "added_mock" \in msgs'[s]

\* the step is a rewrite of the file that broke off with an I/O error after
\* open(mock_path, "w") and was reported as a failure
BrokenWrite(s) == "mock_failed" \notin msgs[s] /\ "mock_failed" \in msgs'[s]

InRanges(row) ==
    /\ -LatMax <= row.latitude /\ row.latitude <= LatMax
    /\ -LonMax <= row.longitude /\ row.longitude <= LonMax
    /\ row.brightness_rating \in 1..5

\* C23: every record of the table load_data returns has its latitude in
\* -90..90, its longitude in -180..180 and its brightness_rating in 1..5,
\* whatever raw records the store holds.
C23_LoadedInRanges ==
    \A s \in Sessions :
      loaded[s].err = "none" => \A i \in 1..Len(Table(s)) : InRanges(Table(s)[i])

(* -------------------------------- C24 --------------------------------- *)
\* the image of the run of session s has been written to uploads/
ImageSaved(s) == "upload_write" \in io[s]

\* the file at the path holds the image uploaded in the run of session s
HoldsImageOf(path, s) ==
    \E u \in uploads : u.path = path /\ u.data = <<s, runs[s]>>

\* C24: two distinct submissions have their images saved under distinct
\* filenames, and the image is written before the record is appended, so the
\* photo_url of a persisted record names the file that holds the image
\* uploaded with that record, never the image of another submission.
C24_PhotoUrlOwnImage ==
    /\ \A s, t \in Sessions :
         (s # t /\ ImageSaved(s) /\ ImageSaved(t)) => saved_path[s] # saved_path[t]
    /\ \A s \in Sessions :
         (pc[s] = "end" /\ ended[s] = "rerun" /\ Persisted(s))
         => HoldsImageOf(new_record[s].photo_url, s)

(* -------------------------------- C25 --------------------------------- *)
\* poll_job_status has returned
Polled == polled # NotPolled

\* the status the i-th job status request of the call saw
Seen(i) == StatusAt(astrometry.job, i - 1)

\* what poll_job_status returned, against the statuses its requests saw
PollVerdict ==
    /\ polled.polls = requests
    /\ polled.result => Seen(requests) = "success"
    /\ (requests > 0 /\ Seen(requests) \in {"failure", "failed", "error", "unexpected"})
         => ~polled.result
    /\ (\A i \in 1..MAX_JOB_POLLS : Seen(i) \in {"solving", "neterr"})
         => ~polled.result /\ polled.why = "exhausted" /\ requests = MAX_JOB_POLLS
    /\ polled = poll_job_status(astrometry.job)

\* C25: poll_job_status always terminates, after at most MAX_JOB_POLLS (20)
\* status requests, whatever statuses and network errors it sees; it returns
\* True only if a poll reported "success", and False on a failure status, on
\* an unexpected error or when the attempts are used up.
C25_PollTerminates ==
    /\ [](requests <= MAX_JOB_POLLS)
    /\ [](Polled => PollVerdict)
    /\ (detect_pc = "job") ~> Polled

\* the polls gave out after 20 requests, some of which raised network errors
C25_Exhausted ==
    /\ polled = PollResult(FALSE, MAX_JOB_POLLS, "exhausted")
    /\ \E i \in 1..MAX_JOB_POLLS : Seen(i) = "neterr"
    /\ astrometry.job # <<>>

(* -------------------------------- C26 --------------------------------- *)
\* setConstellation has returned or has been left by an exception
Detected == detect_pc = "returned"

\* the one submission poll was made and its answer named no job
NoJobId ==
    /\ astrometry.login = "success" /\ astrometry.upload = "success"
    /\ astrometry.sub = "nojob"

\* C26: setConstellation returns an empty sequence, not an error, when the
\* single submission poll gives no job id, when the job reports failure and
\* when the job polls run out; it returns constellation names only after a
\* job poll reported success.
C26_EmptyNotError ==
    Detected =>
      /\ NoJobId => returned = Returned(<<>>) /\ requests = 0
      /\ (Polled /\ polled.why \in {"failure", "exhausted"}) => returned = Returned(<<>>)
      /\ (returned.kind = "return" /\ returned.value # <<>>)
           => Polled /\ polled.result /\ Seen(requests) = "success"
      /\ returned = setConstellation(astrometry)

\* the call ended empty for want of a job id
C26_NoJobReturned == Detected /\ NoJobId /\ returned = Returned(<<>>)

(* -------------------------------- C27 --------------------------------- *)
\* C27: the time series of an empty table is empty, and the Trends tab gets
\* it without an error, for every granularity.
C27_EmptyInEmptyOut ==
    \A s \in Sessions :
      (Charted(s) /\ area_filtered = <<>>)
      => ts = <<>> /\ ts = time_series(area_filtered, params.freq)

\* the chart of a store without records has been drawn by week
C27_EmptyCharted ==
    \E s \in Sessions :
      /\ Charted(s)
      /\ Table(s) = <<>>
      /\ area_filtered = <<>>
      /\ params.freq = "W"
      /\ ts = <<>>

(* -------------------------------- C28 --------------------------------- *)
\* the step is the read of the local append of session s
ReadStep(s) == pc[s] = "read" /\ pc'[s] # "read"

\* the step is the rewrite of the local append of session s, not broken off
\* by an I/O error
WriteStep(s) == pc[s] = "write" /\ pc'[s] # "write" /\ ~BrokenWrite(s)

\* C28: when the local file exists and its JSON content is no array, the
\* append reads it as the empty array without an error, rewrites the file
\* as an array that holds only the new record, and reports success.
C28_NonArrayDiscarded ==
    [][ \A s \in Sessions :
          /\ (ReadStep(s) /\ file.kind = "object")
               => /\ pc'[s] = "write"
                  /\ existing'[s] = <<>>
                  /\ msgs'[s] = msgs[s]
          /\ (WriteStep(s) /\ existing[s] = <<>>)
               => /\ file' = FileOf("list", <<ToJson(new_record[s])>>)
                  /\ "added_mock" \in msgs'[s]
                  /\ "mock_failed" \notin msgs'[s]
      ]_vars

\* the run loaded the array, the file was then replaced by a document that
\* is no array, and the append left an array with only the run's record
C28_OnlyNewRecord ==
    \E s \in Sessions :
      /\ AppendedLocally(s)
      /\ Table(s) # <<>>
      /\ existing[s] = <<>>
      /\ file = FileOf("list", <<ToJson(new_record[s])>>)

(* -------------------------------- C29 --------------------------------- *)
\* the brightness, constellation and radius stages, without the date stage
WithoutDateStage(rows, p) ==
    AreaStage(ConstellationStage(BrightnessStage(rows, p.min_brightness), p.const_filter),
              p.center_lat, p.center_lon, p.radius_km)

\* C29: when the date input does not hold exactly two dates, for instance
\* only a start date, the date stage is skipped and rows of every date pass
\* it; the brightness, constellation and radius stages still apply.
C29_DateStageSkipped ==
    \A s \in Sessions :
      (pc[s] = "form" /\ Len(params.date_range) # 2) =>
        /\ step = "brightness" => filtered = Table(s)
        /\ step = "constellation" => filtered = BrightnessStage(stage_in, params.min_brightness)
        /\ step = "area" => filtered = ConstellationStage(stage_in, params.const_filter)
        /\ AreaFiltered(s) => area_filtered = WithoutDateStage(Table(s), params)

\* only a start date was picked: rows of that day and of a later day came
\* through, and the brightness floor took a row of the start day out
C29_OnlyStartPicked ==
    \E s \in Sessions :
      /\ AreaFiltered(s)
      /\ Len(params.date_range) = 1
      /\ \E i, j \in 1..Len(area_filtered) :
           /\ DayOf(area_filtered[i].timestamp) = params.date_range[1]
           /\ DayOf(area_filtered[j].timestamp) > params.date_range[1]
      /\ \E i \in 1..Len(Table(s)) :
           /\ DayOf(Table(s)[i].timestamp) = params.date_range[1]
           /\ Table(s)[i].brightness_rating < params.min_brightness
           /\ ~Kept(Table(s)[i], area_filtered)

(* -------------------------------- C30 --------------------------------- *)
\* the store was read, and what was read are zero records
ReadEmptyStore(s) ==
    /\ JustLoaded(s)
    /\ StoreEmpty(s)
    /\ ~FetchFailed(s)
    /\ loaded[s].err # "ImportError"

\* C30: load_data on a store that holds zero records returns an empty table
\* instead of failing, in the local-file mode and in the remote-table mode.
C30_EmptyStoreLoads ==
    \A s \in Sessions :
      ReadEmptyStore(s) => loaded[s].err = "none" /\ loaded[s].df = <<>>

====
